---- MODULE Spec2Model ----
(***************************************************************************)
(* A model of apply-license: the library (src/src/lib.rs) and its two      *)
(* command line front ends (src/src/bin/apply-license.rs and               *)
(* src/src/bin/cargo-apply-license.rs).                                    *)
(*                                                                         *)
(* A Rust string is a sequence of one-character strings, so that splitting *)
(* an expression, matching an author and joining names are computed on the *)
(* characters, as the code does.  A character that a TLA+ string cannot    *)
(* hold is the string of its code point, such as "U+00A0".                 *)
(***************************************************************************)
EXTENDS Naturals, Sequences, FiniteSets

VARIABLES
    \* the library pipeline: parse_spdx, then render_license_text
    expr, expr_pieces, parsed, lib_rendered,
    \* parse_author_names
    authors_in, authors_budget, names_out,
    \* render_license_text on an arbitrary license list
    r_licenses, r_out,
    \* one run of a command line front end
    mode, pc, opt_license, opt_authors, manifest_license, original_license,
    names, licenses, rendered, pending, files, manifest_file, manifest_writes,
    manifest_cut, result

libVars == <<expr, expr_pieces, parsed, lib_rendered>>
authVars == <<authors_in, authors_budget, names_out>>
rendVars == <<r_licenses, r_out>>
cliVars == <<mode, pc, opt_license, opt_authors, manifest_license, original_license,
             names, licenses, rendered, pending, files, manifest_file,
             manifest_writes, manifest_cut, result>>
vars == <<libVars, authVars, rendVars, cliVars>>

----
\* Bounds of the model.

\* pieces of text an expression is put together from
MaxPieces == 5
\* authors of one list plus the pieces of text they are put together from
MaxAuthorBudget == 7
\* licenses handed to render_license_text
MaxLicenses == 3
\* pieces of text of an expression given to a command line run
MaxCliPieces == 3

----
\* Strings.

MIT == <<"M", "I", "T">>
Apache20 == <<"A", "p", "a", "c", "h", "e", "-", "2", ".", "0">>
Zed == <<"Z", "e", "d">>
LowerMit == <<"m", "i", "t">>
OpOr == <<"O", "R">>
OpAnd == <<"A", "N", "D">>
OpWith == <<"W", "I", "T", "H">>
Space == <<" ">>
Slash == <<"/">>
FormFeed == <<"\f">>
GPL30 == <<"G", "P", "L", "-", "3", ".", "0">>

\* the characters with the Unicode property White_Space; one that has no
\* escape in a TLA+ string is written as its code point
WhiteSpace ==
    {"\t", "\n", "U+000B", "\f", "\r", " ", "U+0085", "U+00A0", "U+1680",
     "U+2000", "U+2001", "U+2002", "U+2003", "U+2004", "U+2005", "U+2006",
     "U+2007", "U+2008", "U+2009", "U+200A", "U+2028", "U+2029", "U+202F",
     "U+205F", "U+3000"}

\* char::is_whitespace
IsWhitespace(c) == c \in WhiteSpace

\* str::contains for a one-character pattern
Contains(s, c) == \E i \in 1..Len(s) : s[i] = c

RECURSIVE JoinWith(_, _)
\* [S]::join(sep)
JoinWith(ss, sep) ==
    IF ss = <<>> THEN <<>>
    ELSE IF Len(ss) = 1 THEN Head(ss)
    ELSE Head(ss) \o sep \o JoinWith(Tail(ss), sep)

RECURSIVE SplitOn(_, _, _)
\* str::split(c): every piece between two separators, the empty ones included;
\* cur is the piece being read
SplitOn(s, c, cur) ==
    IF s = <<>> THEN <<cur>>
    ELSE IF Head(s) = c THEN <<cur>> \o SplitOn(Tail(s), c, <<>>)
    ELSE SplitOn(Tail(s), c, Append(cur, Head(s)))

RECURSIVE SplitWhitespace(_, _)
\* str::split_whitespace: the maximal runs of non-whitespace characters
SplitWhitespace(s, cur) ==
    IF s = <<>> THEN (IF cur = <<>> THEN <<>> ELSE <<cur>>)
    ELSE IF IsWhitespace(Head(s))
         THEN (IF cur = <<>> THEN <<>> ELSE <<cur>>) \o SplitWhitespace(Tail(s), <<>>)
    ELSE SplitWhitespace(Tail(s), Append(cur, Head(s)))

----
\* The order of a BTreeMap<PathBuf, _>: for file names of one component, the
\* order of their bytes.

\* the characters of the model's file names, in ASCII order
Ascii == <<"-", "A", "B", "C", "D", "E", "F", "G", "H", "I", "J", "K", "L", "M",
           "N", "O", "P", "Q", "R", "S", "T", "U", "V", "W", "X", "Y", "Z">>

Code(c) == CHOOSE i \in 1..Len(Ascii) : Ascii[i] = c

\* a < b, byte by byte
StrLess(a, b) ==
    \E k \in 1..(Len(b)) :
        /\ \A i \in 1..(k - 1) : i <= Len(a) /\ a[i] = b[i]
        /\ \/ k = Len(a) + 1
           \/ k <= Len(a) /\ Code(a[k]) < Code(b[k])

RECURSIVE InOrder(_)
\* the strings of a set, smallest first
InOrder(S) ==
    IF S = {} THEN <<>>
    ELSE LET least == CHOOSE x \in S : \A y \in S \ {x} : StrLess(x, y)
         IN  <<least>> \o InOrder(S \ {least})

----
\* The embedded data: src/licenses.toml and src/spdx-licenses.json.

\* a License without its text: the template is named by spdx
Lic(identifier, spdx) == [identifier |-> identifier, spdx |-> spdx]

LicMIT == Lic(MIT, MIT)
LicApache == Lic(<<"A", "P", "A", "C", "H", "E">>, Apache20)
LicGPL == Lic(<<"G", "P", "L">>, GPL30)

\* the entries of the license catalog that the tests name
LICENSES == <<LicApache, LicGPL, LicMIT>>

\* the license IDs of the SPDX reference list that the model uses
SPDX_LICENSE_LIST == {MIT, Apache20, GPL30, Zed}

is_valid_spdx_id(id) == \E l \in SPDX_LICENSE_LIST : l = id

----
\* Results: anyhow::Result, with the error's kind and the token it names.

Ok(v) == [kind |-> "Ok", value |-> v, token |-> <<>>]
Err(k, t) == [kind |-> k, value |-> <<>>, token |-> t]
NotRun == [kind |-> "NotRun", value |-> <<>>, token |-> <<>>]

----
\* parse_spdx

IsOperatorNoWith(token) == token \in {OpOr, OpAnd}

\* the tokens the flat_map drops
IsOperator(token) == token \in {OpWith, OpOr, OpAnd}

TokenizeWhitespaceOnly(license_expr) == SplitWhitespace(license_expr, <<>>)

\* the split of the expression: on "/" when it has one, else on whitespace
Tokenize(license_expr) ==
    IF Contains(license_expr, "/")
    THEN SplitOn(license_expr, "/", <<>>)
    ELSE SplitWhitespace(license_expr, <<>>)

\* LICENSES.iter().find(|license| license.spdx == id)
FindLicense(id) ==
    LET hits == {i \in 1..Len(LICENSES) : LICENSES[i].spdx = id}
    IN  IF hits = {} THEN Err("UnsupportedLicense", id)
        ELSE Ok(<<LICENSES[CHOOSE i \in hits : \A j \in hits : i <= j]>>)

\* the map closure: one token to a catalog entry or an error
Resolve(id) ==
    IF is_valid_spdx_id(id) THEN FindLicense(id)
    ELSE Err("InvalidSpdxId", id)

RECURSIVE CollectLast(_)
CollectLast(ids) ==
    IF ids = <<>> THEN Ok(<<>>)
    ELSE LET rest == CollectLast(Tail(ids))
             r == Resolve(Head(ids))
         IN  IF rest.kind # "Ok" THEN rest
             ELSE IF r.kind # "Ok" THEN r
             ELSE Ok(r.value \o rest.value)

RECURSIVE Collect(_)
\* collect::<Result<Vec<_>>>(): the first error, or all the entries in order
Collect(ids) ==
    IF ids = <<>> THEN Ok(<<>>)
    ELSE LET r == Resolve(Head(ids))
         IN  IF r.kind # "Ok" THEN r
             ELSE LET rest == Collect(Tail(ids))
                  IN  IF rest.kind # "Ok" THEN rest
                      ELSE Ok(r.value \o rest.value)

parse_spdx(license_expr) ==
    Collect(SelectSeq(Tokenize(license_expr), LAMBDA t : ~IsOperator(t)))

----
\* render_license_text

LICENSE == <<"L", "I", "C", "E", "N", "S", "E">>

\* a map with no key
EmptyMap == [k \in {} |-> NotRun]

\* BTreeMap::insert: the value of a key that is already there is replaced
MapInsert(m, key, v) == [k \in DOMAIN m \cup {key} |-> IF k = key THEN v ELSE m[k]]

FileNameAlwaysSuffixed(license, count) == LICENSE \o <<"-">> \o license.identifier

\* the name of a license's file, given how many licenses are rendered
FileName(license, count) ==
    IF count = 1 THEN LICENSE
    ELSE LICENSE \o <<"-">> \o license.identifier

\* TemplateData.copyright_holders
CopyrightHolders(authors) == JoinWith(authors, <<",", " ">>)

\* reg.render(&license.spdx, ..): the template registered under the license's
\* spdx, filled in; an error when no template has that name.  The text is
\* stood for by the template's name and the value of copyright_holders (the
\* year is the clock's and not modelled).
RenderOne(license, authors) ==
    IF \E i \in 1..Len(LICENSES) : LICENSES[i].spdx = license.spdx
    THEN Ok([template |-> license.spdx, copyright_holders |-> CopyrightHolders(authors)])
    ELSE Err("RenderError", license.spdx)

RECURSIVE RenderAll(_, _, _, _)
\* the map over the licenses collected into a Result<BTreeMap>: the first
\* error, or every (name, contents) pair inserted in order
RenderAll(ls, count, authors, acc) ==
    IF ls = <<>> THEN Ok(acc)
    ELSE LET r == RenderOne(Head(ls), authors)
         IN  IF r.kind # "Ok" THEN r
             ELSE RenderAll(Tail(ls), count, authors,
                            MapInsert(acc, FileName(Head(ls), count), r.value))

RenderCountingDistinct(ls, authors) ==
    RenderAll(ls, Cardinality({ls[i] : i \in 1..Len(ls)}), authors, EmptyMap)

render_license_text(ls, authors) == RenderAll(ls, Len(ls), authors, EmptyMap)

----
\* parse_author_names

Some(v) == [some |-> TRUE, v |-> v]
None == [some |-> FALSE, v |-> <<>>]

\* what "." of the regex matches: any character but a line feed
Dot(c) == c # "\n"

\* GIT_NAME_RE matches name[start..q] with the name group name[start..p-1]:
\* (?P<name>.+) is name[start..p-1], " <" is at p, (?P<email>.+) is
\* name[p+2..q-1] and ">" is at q
MatchesAt(name, start, p) ==
    /\ start < p
    /\ p + 1 <= Len(name)
    /\ \A i \in start..(p - 1) : Dot(name[i])
    /\ name[p] = " "
    /\ name[p + 1] = "<"
    /\ \E q \in (p + 3)..Len(name) :
          /\ name[q] = ">"
          /\ \A i \in (p + 2)..(q - 1) : Dot(name[i])

NameEnds(name, start) == {p \in 1..Len(name) : MatchesAt(name, start, p)}

SetMin(S) == CHOOSE x \in S : \A y \in S : x <= y
SetMax(S) == CHOOSE x \in S : \A y \in S : y <= x

GitStyleAuthorLazy(name) ==
    LET starts == {s \in 1..Len(name) : NameEnds(name, s) # {}}
    IN  IF starts = {} THEN None
        ELSE Some(SubSeq(name, SetMin(starts), SetMin(NameEnds(name, SetMin(starts))) - 1))

\* GIT_NAME_RE.captures(name): the leftmost match, its name group as long as
\* a match allows
parse_git_style_author(name) ==
    LET starts == {s \in 1..Len(name) : NameEnds(name, s) # {}}
    IN  IF starts = {} THEN None
        ELSE Some(SubSeq(name, SetMin(starts), SetMax(NameEnds(name, SetMin(starts))) - 1))

parse_author_names(authors) ==
    IF authors = <<>> THEN Err("NoAuthors", <<>>)
    ELSE Ok([i \in 1..Len(authors) |->
                LET m == parse_git_style_author(authors[i])
                IN  IF m.some THEN m.v ELSE authors[i]])

----
\* The library pipeline: an expression is parsed, and what it resolves to is
\* rendered.

\* the text an expression is put together from
Pieces == {MIT, Apache20, Zed, LowerMit, OpOr, OpAnd, OpWith, Space, Slash, FormFeed}

JohnDoe == <<"J", "o", "h", "n", " ", "D", "o", "e">>

\* package.license of a manifest, a toml_edit Item: absent, a string, or
\* something else (license.workspace = true, license = { workspace = true })
ItemNone == [kind |-> "none", v |-> <<>>]
ItemStr(s) == [kind |-> "str", v |-> s]
ItemTable == [kind |-> "table", v |-> <<>>]

\* Item::as_str
AsStr(item) == IF item.kind = "str" THEN Some(item.v) ELSE None

LibIdle == expr = <<>> /\ expr_pieces = 0 /\ parsed = NotRun /\ lib_rendered = NotRun
AuthIdle == authors_in = <<>> /\ authors_budget = 0 /\ names_out = NotRun
RendIdle == r_licenses = <<>> /\ r_out = NotRun
CliIdle ==
    /\ mode = "none" /\ pc = "idle"
    /\ opt_license = None /\ opt_authors = <<>> /\ manifest_license = ItemNone
    /\ original_license = None /\ names = NotRun /\ licenses = NotRun
    /\ rendered = NotRun /\ pending = <<>> /\ files = EmptyMap
    /\ manifest_file = ItemNone /\ manifest_writes = 0 /\ manifest_cut = FALSE
    /\ result = NotRun

InitLib == LibIdle /\ AuthIdle /\ RendIdle /\ CliIdle

\* the caller writes the expression, one piece of text after the other
AppendPiece(p) ==
    /\ parsed = NotRun
    /\ expr_pieces < MaxPieces
    /\ expr' = expr \o p
    /\ expr_pieces' = expr_pieces + 1
    /\ UNCHANGED <<parsed, lib_rendered, authVars, rendVars, cliVars>>

Parse ==
    /\ parsed = NotRun
    /\ parsed' = parse_spdx(expr)
    /\ UNCHANGED <<expr, expr_pieces, lib_rendered, authVars, rendVars, cliVars>>

RenderParsed ==
    /\ parsed.kind = "Ok"
    /\ lib_rendered = NotRun
    /\ lib_rendered' = render_license_text(parsed.value, <<JohnDoe>>)
    /\ UNCHANGED <<expr, expr_pieces, parsed, authVars, rendVars, cliVars>>

NextLib == (\E p \in Pieces : AppendPiece(p)) \/ Parse \/ RenderParsed

SpecLib == InitLib /\ [][NextLib]_vars

----
\* parse_author_names on a list of authors.

\* the text an author is put together from
AuthorPieces == {<<"J">>, <<" ", "<">>, <<">">>, <<"<">>, <<"\n">>}

InitAuthors == LibIdle /\ AuthIdle /\ RendIdle /\ CliIdle

\* the caller adds an author to the list
NewAuthor ==
    /\ names_out = NotRun
    /\ authors_budget < MaxAuthorBudget
    /\ authors_in' = Append(authors_in, <<>>)
    /\ authors_budget' = authors_budget + 1
    /\ UNCHANGED <<names_out, libVars, rendVars, cliVars>>

\* the caller writes on in the last author of the list
AppendAuthorPiece(p) ==
    /\ names_out = NotRun
    /\ authors_in # <<>>
    /\ authors_budget < MaxAuthorBudget
    /\ authors_in' = [authors_in EXCEPT ![Len(authors_in)] = @ \o p]
    /\ authors_budget' = authors_budget + 1
    /\ UNCHANGED <<names_out, libVars, rendVars, cliVars>>

Normalize ==
    /\ names_out = NotRun
    /\ names_out' = parse_author_names(authors_in)
    /\ UNCHANGED <<authors_in, authors_budget, libVars, rendVars, cliVars>>

NextAuthors == NewAuthor \/ (\E p \in AuthorPieces : AppendAuthorPiece(p)) \/ Normalize

SpecAuthors == InitAuthors /\ [][NextAuthors]_vars

----
\* render_license_text on a list of licenses.

\* License is a public struct: a caller can hand in licenses of its own, here
\* one whose template is not registered and one that shares an identifier
ForeignUnregistered == Lic(<<"X">>, Zed)
ForeignSameIdentifier == Lic(MIT, Apache20)

RenderLicenses == {LicMIT, LicApache, LicGPL, ForeignUnregistered, ForeignSameIdentifier}

JaneRoe == <<"J", "a", "n", "e", " ", "R", "o", "e">>

RenderAuthors == {<<>>, <<JohnDoe>>, <<JohnDoe, JaneRoe>>}

InitRender == LibIdle /\ AuthIdle /\ RendIdle /\ CliIdle

AddLicense(l) ==
    /\ r_out = NotRun
    /\ Len(r_licenses) < MaxLicenses
    /\ r_licenses' = Append(r_licenses, l)
    /\ UNCHANGED <<r_out, libVars, authVars, cliVars>>

RenderList(authors) ==
    /\ r_out = NotRun
    /\ r_out' = render_license_text(r_licenses, authors)
    /\ UNCHANGED <<r_licenses, libVars, authVars, cliVars>>

NextRender ==
    \/ \E l \in RenderLicenses : AddLicense(l)
    \/ \E a \in RenderAuthors : RenderList(a)

SpecRender == InitRender /\ [][NextRender]_vars

----
\* The command line front ends: one run of apply-license or of
\* cargo-apply-license.

DEFAULT_LICENSE == MIT \o Space \o OpOr \o Space \o Apache20

\* the manifest's path
CargoToml == <<"C", "a", "r", "g", "o", ".", "t", "o", "m", "l">>

JohnDoeGit == JohnDoe \o <<" ", "<", "j", "d", "@", "x", ".", "y", ">">>

\* the authors of the command line, or of the package's metadata
CliAuthors == {<<>>, <<JohnDoe>>, <<JohnDoeGit>>, <<JohnDoeGit, JaneRoe>>}

\* the expressions of the command line
CliExpressions == UNION {{JoinWith(ps, <<>>) : ps \in [1..k -> Pieces]} : k \in 0..MaxCliPieces}

\* package.license of the manifest on disk, when it has one
ManifestLicenses == {MIT, MIT \o Slash \o Apache20, GPL30}

InitCli ==
    /\ LibIdle /\ AuthIdle /\ RendIdle
    /\ mode \in {"apply", "cargo"}
    /\ pc = "start"
    /\ opt_authors \in CliAuthors
    /\ \/ mode = "apply" /\ opt_license \in {Some(e) : e \in CliExpressions}
          /\ manifest_file = ItemNone
       \/ mode = "cargo" /\ opt_license \in {None} \cup {Some(e) : e \in CliExpressions}
          /\ manifest_file \in {ItemNone, ItemTable} \cup {ItemStr(m) : m \in ManifestLicenses}
    /\ manifest_license = ItemNone /\ original_license = None
    /\ names = NotRun /\ licenses = NotRun /\ rendered = NotRun
    /\ pending = <<>> /\ files = EmptyMap /\ manifest_writes = 0
    /\ manifest_cut = FALSE
    /\ result = NotRun

\* the run returns r
Return(r) == pc' = "done" /\ result' = r

\* apply-license, run: the expression is parsed and rendered with the authors
\* as given
ApplyResolve ==
    /\ mode = "apply" /\ pc = "start"
    /\ LET ls == parse_spdx(opt_license.v)
           out == IF ls.kind = "Ok" THEN render_license_text(ls.value, opt_authors)
                  ELSE NotRun
       IN  /\ licenses' = ls
           /\ rendered' = out
           /\ IF ls.kind # "Ok" THEN Return(ls) /\ pending' = <<>>
              ELSE IF out.kind # "Ok" THEN Return(out) /\ pending' = <<>>
              ELSE pc' = "write" /\ pending' = InOrder(DOMAIN out.value)
                   /\ UNCHANGED result
    /\ UNCHANGED <<mode, opt_license, opt_authors, manifest_license, original_license,
                   names, files, manifest_file, manifest_writes, manifest_cut, libVars, authVars,
                   rendVars>>

\* a file on disk: the text written to it, and whether all of it is there
OnDisk(text, whole) == [text |-> text, whole |-> whole]

\* fs::write(name, contents) of the next license file succeeds
WriteLicense ==
    /\ pc = "write" /\ pending # <<>>
    /\ files' = MapInsert(files, Head(pending),
                          OnDisk(rendered.value[Head(pending)], TRUE))
    /\ pending' = Tail(pending)
    /\ UNCHANGED <<mode, pc, opt_license, opt_authors, manifest_license,
                   original_license, names, licenses, rendered, manifest_file,
                   manifest_writes, manifest_cut, result, libVars, authVars, rendVars>>

\* fs::write(name, contents) of the next license file fails after the file
\* was created or truncated: the run returns the error, and a cut-off file
\* of that name is on disk, with the files written before
WriteLicenseCutOff ==
    /\ pc = "write" /\ pending # <<>>
    /\ files' = MapInsert(files, Head(pending),
                          OnDisk(rendered.value[Head(pending)], FALSE))
    /\ Return(Err("IoError", Head(pending)))
    /\ UNCHANGED <<mode, opt_license, opt_authors, manifest_license, original_license,
                   names, licenses, rendered, pending, manifest_file,
                   manifest_writes, manifest_cut, libVars, authVars, rendVars>>

\* fs::write(name, contents) of the next license file fails before the file
\* is created: the run returns the error, and the files written before stay
WriteLicenseFails ==
    /\ pc = "write" /\ pending # <<>>
    /\ Return(Err("IoError", Head(pending)))
    /\ UNCHANGED <<mode, opt_license, opt_authors, manifest_license, original_license,
                   names, licenses, rendered, pending, files, manifest_file,
                   manifest_writes, manifest_cut, libVars, authVars, rendVars>>

ApplyFinish ==
    /\ mode = "apply" /\ pc = "write" /\ pending = <<>>
    /\ Return(Ok(<<>>))
    /\ UNCHANGED <<mode, opt_license, opt_authors, manifest_license, original_license,
                   names, licenses, rendered, pending, files, manifest_file,
                   manifest_writes, manifest_cut, libVars, authVars, rendVars>>

\* cargo-apply-license, run: cargo metadata answers, and the authors of the
\* first package are normalized
CargoAuthors ==
    /\ mode = "cargo" /\ pc = "start"
    /\ names' = parse_author_names(opt_authors)
    /\ IF names'.kind # "Ok" THEN Return(names') ELSE pc' = "read" /\ UNCHANGED result
    /\ UNCHANGED <<mode, opt_license, opt_authors, manifest_license, original_license,
                   licenses, rendered, pending, files, manifest_file, manifest_writes,
                   manifest_cut, libVars, authVars, rendVars>>

\* cargo metadata answers without a package (a workspace without members):
\* metadata.packages[0] panics
CargoNoPackage ==
    /\ mode = "cargo" /\ pc = "start"
    /\ Return(Err("Panic", <<>>))
    /\ UNCHANGED <<mode, opt_license, opt_authors, manifest_license, original_license,
                   names, licenses, rendered, pending, files, manifest_file,
                   manifest_writes, manifest_cut, libVars, authVars, rendVars>>

\* cargo metadata fails
CargoMetadataFails ==
    /\ mode = "cargo" /\ pc = "start"
    /\ Return(Err("MetadataError", <<>>))
    /\ UNCHANGED <<mode, opt_license, opt_authors, manifest_license, original_license,
                   names, licenses, rendered, pending, files, manifest_file,
                   manifest_writes, manifest_cut, libVars, authVars, rendVars>>

\* the manifest cannot be read or parsed
CargoReadFails ==
    /\ mode = "cargo" /\ pc = "read"
    /\ Return(Err("IoError", <<>>))
    /\ UNCHANGED <<mode, opt_license, opt_authors, manifest_license, original_license,
                   names, licenses, rendered, pending, files, manifest_file,
                   manifest_writes, manifest_cut, libVars, authVars, rendVars>>

NeedsRewriteAlways(original, current) == TRUE

\* the condition of the manifest's rewrite
NeedsRewrite(original, current) == original # current

\* Item::or_insert: the item is set only when it is none
OrInsert(item, v) == IF item.kind # "none" THEN item ELSE ItemStr(v)

\* the run ends in a panic: run returns nothing and the process exits with 101
Panicked == Err("Panic", <<>>)

\* the manifest is read; package.license, set to --license or the default when
\* the manifest has none, is parsed and rendered with the normalized names.
\* as_str().unwrap() panics on a license that is there and is no string.
CargoResolve ==
    /\ mode = "cargo" /\ pc = "read"
    /\ LET license_expr == IF opt_license.some THEN opt_license.v ELSE DEFAULT_LICENSE
           license_value == OrInsert(manifest_file, license_expr)
           unwrapped == AsStr(license_value)
           ls == IF unwrapped.some THEN parse_spdx(unwrapped.v) ELSE NotRun
           out == IF ls.kind = "Ok" THEN render_license_text(ls.value, names.value)
                  ELSE NotRun
       IN  /\ original_license' = AsStr(manifest_file)
           /\ manifest_license' = license_value
           /\ licenses' = ls
           /\ rendered' = out
           /\ IF ~unwrapped.some THEN Return(Panicked) /\ pending' = <<>>
              ELSE IF ls.kind # "Ok" THEN Return(ls) /\ pending' = <<>>
              ELSE IF out.kind # "Ok" THEN Return(out) /\ pending' = <<>>
              ELSE pc' = "write" /\ pending' = InOrder(DOMAIN out.value)
                   /\ UNCHANGED result
    /\ UNCHANGED <<mode, opt_license, opt_authors, names, files, manifest_file,
                   manifest_writes, manifest_cut, libVars, authVars, rendVars>>

\* after the license files: the manifest is written back when its license
\* changed, and the write succeeds
CargoFinish ==
    /\ mode = "cargo" /\ pc = "write" /\ pending = <<>>
    /\ IF NeedsRewrite(original_license, AsStr(manifest_license))
       THEN manifest_file' = manifest_license /\ manifest_writes' = manifest_writes + 1
       ELSE UNCHANGED <<manifest_file, manifest_writes>>
    /\ Return(Ok(<<>>))
    /\ UNCHANGED <<mode, opt_license, opt_authors, manifest_license, original_license,
                   names, licenses, rendered, pending, files, manifest_cut, libVars,
                   authVars, rendVars>>

\* the manifest's write fails after the file was truncated: what is on disk
\* is a part of the new manifest, with its license line or without
CargoRewriteCutOff ==
    /\ mode = "cargo" /\ pc = "write" /\ pending = <<>>
    /\ NeedsRewrite(original_license, AsStr(manifest_license))
    /\ manifest_file' \in {ItemNone, manifest_license}
    /\ manifest_writes' = manifest_writes + 1
    /\ manifest_cut' = TRUE
    /\ Return(Err("IoError", CargoToml))
    /\ UNCHANGED <<mode, opt_license, opt_authors, manifest_license, original_license,
                   names, licenses, rendered, pending, files, libVars, authVars,
                   rendVars>>

\* the manifest's write fails before the file is opened: the manifest stays
\* as it was
CargoRewriteFails ==
    /\ mode = "cargo" /\ pc = "write" /\ pending = <<>>
    /\ NeedsRewrite(original_license, AsStr(manifest_license))
    /\ Return(Err("IoError", CargoToml))
    /\ UNCHANGED <<mode, opt_license, opt_authors, manifest_license, original_license,
                   names, licenses, rendered, pending, files, manifest_file,
                   manifest_writes, manifest_cut, libVars, authVars, rendVars>>

NextCli ==
    \/ ApplyResolve
    \/ WriteLicense
    \/ WriteLicenseCutOff
    \/ WriteLicenseFails
    \/ ApplyFinish
    \/ CargoAuthors
    \/ CargoNoPackage
    \/ CargoMetadataFails
    \/ CargoReadFails
    \/ CargoResolve
    \/ CargoFinish
    \/ CargoRewriteCutOff
    \/ CargoRewriteFails

SpecCli == InitCli /\ [][NextCli]_vars

----
\* Claims about parse_spdx, checked under SpecLib.

\* the tokens of the expression that are not operators, in order
NonOperatorTokens(e) == SelectSeq(Tokenize(e), LAMBDA t : t \notin {OpWith, OpOr, OpAnd})

InCatalog(id) == \E i \in 1..Len(LICENSES) : LICENSES[i].spdx = id
CatalogEntry(id) == CHOOSE l \in {LICENSES[i] : i \in 1..Len(LICENSES)} : l.spdx = id

\* the places of the tokens that resolve to no catalog entry
UnresolvedAt(toks) ==
    {i \in 1..Len(toks) : toks[i] \notin SPDX_LICENSE_LIST \/ ~InCatalog(toks[i])}

\* C1: when a non-operator token cannot be resolved, parse_spdx returns an
\* error and no list, and the error is that of the leftmost such token:
\* "invalid SPDX license ID" naming it when it is not in the reference list,
\* "valid, but unsupported" naming it when it is there but not in the catalog.
C1_LeftmostUnresolvedDecides ==
    parsed # NotRun =>
        LET toks == NonOperatorTokens(expr)
            bad == UnresolvedAt(toks)
        IN  bad # {} =>
                LET t == toks[SetMin(bad)]
                IN  /\ parsed.value = <<>>
                    /\ parsed.token = t
                    /\ parsed.kind = IF t \in SPDX_LICENSE_LIST
                                     THEN "UnsupportedLicense"
                                     ELSE "InvalidSpdxId"

\* an unsupported token decided the error although an invalid one follows it
C1_Witness ==
    /\ parsed.kind = "UnsupportedLicense"
    /\ LET toks == NonOperatorTokens(expr)
       IN  \E i \in UnresolvedAt(toks) :
              /\ i > SetMin(UnresolvedAt(toks))
              /\ toks[i] \notin SPDX_LICENSE_LIST

\* the IDs that are in the reference list and in the catalog
SupportedIds == {id \in SPDX_LICENSE_LIST : InCatalog(id)}

\* C2: two distinct supported IDs joined with " OR ", " AND " or "/" resolve to
\* the catalog entry of the first followed by that of the second, whatever the
\* separator.
C2_TwoIdsAnySeparator ==
    parsed # NotRun =>
        \A a \in SupportedIds : \A b \in SupportedIds \ {a} :
            expr \in {a \o Space \o OpOr \o Space \o b,
                      a \o Space \o OpAnd \o Space \o b,
                      a \o Slash \o b}
            => parsed = Ok(<<CatalogEntry(a), CatalogEntry(b)>>)

C2_Witness ==
    /\ expr = MIT \o Slash \o Apache20
    /\ parsed = Ok(<<LicMIT, LicApache>>)

\* C10: parse_spdx resolves every non-operator token to an entry of its own,
\* repeated tokens included, and render_license_text of two or more licenses
\* has as many keys as the list has distinct identifiers, none of them
\* "LICENSE": a list repeating one license has the one key LICENSE-{identifier}.
C10_NoDedupThenCollapse ==
    /\ parsed.kind = "Ok" =>
          LET toks == NonOperatorTokens(expr)
          IN  /\ Len(parsed.value) = Len(toks)
              /\ \A i \in 1..Len(toks) : parsed.value[i].spdx = toks[i]
    /\ (lib_rendered.kind = "Ok" /\ Len(parsed.value) >= 2) =>
          LET ids == {parsed.value[i].identifier : i \in 1..Len(parsed.value)}
              keys == DOMAIN lib_rendered.value
          IN  /\ Cardinality(keys) = Cardinality(ids)
              /\ LICENSE \notin keys
              /\ Cardinality(ids) = 1 =>
                    keys = {LICENSE \o <<"-">> \o parsed.value[1].identifier}

\* "MIT OR MIT": two resolved licenses, one file name
C10_Witness ==
    /\ expr = MIT \o Space \o OpOr \o Space \o MIT
    /\ parsed = Ok(<<LicMIT, LicMIT>>)
    /\ lib_rendered.kind = "Ok"
    /\ Cardinality(DOMAIN lib_rendered.value) = 1

----
\* Claims about render_license_text, checked under SpecRender.

\* C3: one license is rendered under the one key "LICENSE"; two or more are
\* rendered under the keys "LICENSE-{identifier}" of exactly the given
\* licenses, and "LICENSE" is no key.
C3_NamingByCount ==
    r_out.kind = "Ok" =>
        LET keys == DOMAIN r_out.value
        IN  /\ Len(r_licenses) = 1 => keys = {LICENSE}
            /\ Len(r_licenses) >= 2 =>
                  /\ keys = {LICENSE \o <<"-">> \o r_licenses[i].identifier :
                                i \in 1..Len(r_licenses)}
                  /\ LICENSE \notin keys

C3_Witness ==
    /\ r_out.kind = "Ok"
    /\ r_licenses = <<LicMIT, LicApache>>
    /\ Cardinality(DOMAIN r_out.value) = 2

----
\* Claims about parse_author_names, checked under SpecAuthors.

\* the places p of a " <" of s that has a character before it and, later, a
\* ">" with a character in between
PairsOf(s) ==
    {p \in 2..Len(s) :
        /\ p + 1 <= Len(s)
        /\ s[p] = " " /\ s[p + 1] = "<"
        /\ \E q \in (p + 3)..Len(s) : s[q] = ">"}

\* everything before the last " <...>" pair of s
BeforeLastPair(s) == SubSeq(s, 1, SetMax(PairsOf(s)) - 1)

\* C7 as stated: the empty list fails, any other list is returned entry by
\* entry, an entry with a " <...>" pair cut down to what is before its last
\* pair and any other entry unchanged.
C7_AsStated ==
    names_out # NotRun =>
        /\ names_out.kind = "NoAuthors" <=> authors_in = <<>>
        /\ authors_in # <<>> =>
              /\ names_out.kind = "Ok"
              /\ Len(names_out.value) = Len(authors_in)
              /\ \A i \in 1..Len(authors_in) :
                    names_out.value[i] =
                        IF PairsOf(authors_in[i]) # {}
                        THEN BeforeLastPair(authors_in[i])
                        ELSE authors_in[i]

\* the lines of s
LinesOf(s) == SplitOn(s, "\n", <<>>)

\* C7, amended: the pattern is looked for line by line.  The empty list
\* fails; any other list is returned entry by entry, an entry one of whose
\* lines has a " <...>" pair replaced by what is before the last pair of the
\* first such line, and any other entry unchanged.  For an entry of one line
\* this is everything before its last " <...>" pair.
C7_NameOfFirstMatchingLine ==
    names_out # NotRun =>
        /\ names_out.kind = "NoAuthors" <=> authors_in = <<>>
        /\ authors_in # <<>> =>
              /\ names_out.kind = "Ok"
              /\ Len(names_out.value) = Len(authors_in)
              /\ \A i \in 1..Len(authors_in) :
                    LET lines == LinesOf(authors_in[i])
                        hits == {k \in 1..Len(lines) : PairsOf(lines[k]) # {}}
                    IN  names_out.value[i] =
                            IF hits # {}
                            THEN BeforeLastPair(lines[SetMin(hits)])
                            ELSE authors_in[i]

\* a list of two authors: the first of two lines, cut down to the name on its
\* second line; the second without a pair, unchanged
C7_Witness ==
    /\ names_out.kind = "Ok"
    /\ Len(authors_in) = 2
    /\ authors_in[1] = <<"\n", "J", " ", "<", "J", ">">>
    /\ names_out.value[1] = <<"J">>
    /\ names_out.value[2] = authors_in[2]

----
\* Claims about the command line front ends, checked under SpecCli.

\* the expression the run parses: --license of apply-license, package.license
\* of the manifest in memory for cargo-apply-license
EffectiveExpr == IF mode = "apply" THEN opt_license.v ELSE manifest_license.v

\* C4: a run never ends with only some of the license files written: at its
\* end no license file is on disk, or every rendered one is, whole.
C4_AllOrNothing ==
    pc = "done" =>
        \/ DOMAIN files = {}
        \/ /\ DOMAIN files = DOMAIN rendered.value
           /\ \A k \in DOMAIN files : files[k].whole

\* C5: in cargo-apply-license a given --license is the expression that is
\* parsed and that the manifest holds after a successful run, whether or not
\* the manifest had a license.
C5_LicenseOptionOverrides ==
    (mode = "cargo" /\ pc = "done" /\ result.kind = "Ok" /\ opt_license.some) =>
        /\ AsStr(manifest_license) = opt_license
        /\ licenses = parse_spdx(opt_license.v)
        /\ AsStr(manifest_file) = opt_license

\* C6: in cargo-apply-license, a successful run on a manifest without a
\* license and without --license leaves license = "MIT OR Apache-2.0" in the
\* manifest file and the files LICENSE-MIT and LICENSE-APACHE; and when the
\* manifest has a license (a string or not) and the effective license is that
\* one, the manifest file is not written.
C6_DefaultWrittenBack ==
    mode = "cargo" =>
        /\ (pc = "done" /\ result.kind = "Ok" /\ ~original_license.some
                /\ ~opt_license.some) =>
              /\ manifest_file = ItemStr(DEFAULT_LICENSE)
              /\ ~manifest_cut
              /\ DOMAIN files = {LICENSE \o <<"-">> \o MIT,
                                 LICENSE \o <<"-", "A", "P", "A", "C", "H", "E">>}
              /\ \A k \in DOMAIN files : files[k].whole
        /\ (manifest_license.kind # "none"
                /\ AsStr(manifest_license) = original_license) =>
              /\ manifest_writes = 0
              /\ ~manifest_cut
              /\ manifest_file = manifest_license

C6_Witness ==
    /\ mode = "cargo" /\ pc = "done" /\ result.kind = "Ok"
    /\ ~opt_license.some /\ ~original_license.some
    /\ manifest_writes = 1
    /\ manifest_file = ItemStr(DEFAULT_LICENSE)
    /\ Cardinality(DOMAIN files) = 2

\* C8: in a run of either front end, copyright_holders of every written file
\* is the normalized names of the authors joined with ", ", and a run without
\* authors, when it gets as far as the authors (cargo metadata answered, the
\* expression resolved), ends with the NoAuthors error and no file.
C8_HoldersAreNormalizedNames ==
    /\ \A k \in DOMAIN files :
          /\ parse_author_names(opt_authors).kind = "Ok"
          /\ files[k].text.copyright_holders =
                CopyrightHolders(parse_author_names(opt_authors).value)
    /\ (pc = "done" /\ opt_authors = <<>>
            /\ result.kind \notin {"MetadataError", "Panic", "InvalidSpdxId",
                                    "UnsupportedLicense"}) =>
          /\ result.kind = "NoAuthors"
          /\ files = EmptyMap

\* C9: parse_spdx drops the tokens "WITH", "OR" and "AND" before it validates,
\* so an expression that is empty or made of operators only resolves to the
\* empty list without an error; the run then writes no license file and ends
\* without an error (in cargo-apply-license, unless the write of the manifest
\* fails).
C9_OperatorsAreDropped ==
    licenses # NotRun =>
        LET toks == Tokenize(EffectiveExpr)
            ops == {OpWith, OpOr, OpAnd}
        IN  /\ licenses.kind = "Ok" =>
                  Len(licenses.value) = Cardinality({i \in 1..Len(toks) : toks[i] \notin ops})
            /\ licenses.kind # "Ok" => licenses.token \notin ops
            /\ (\A i \in 1..Len(toks) : toks[i] \in ops) =>
                  /\ licenses = Ok(<<>>)
                  /\ files = EmptyMap
                  /\ pc = "done" =>
                        \/ result.kind = "Ok"
                        \/ mode = "cargo" /\ result = Err("IoError", CargoToml)

\* apply-license --license "OR WITH": done, no error, no file
C9_Witness ==
    /\ mode = "apply" /\ pc = "done"
    /\ opt_license = Some(OpOr \o Space \o OpWith)
    /\ licenses = Ok(<<>>)
    /\ result.kind = "Ok"
    /\ files = EmptyMap

====
